---- MODULE Spec2Model ----
(***************************************************************************)
(* A model of the dinosaur pet asset loader (dino_loader.py), of the       *)
(* compositing renderer (renderer.py) and of the handlers of the host      *)
(* application (dino_pet.py) that load, merge, select and render.          *)
(*                                                                         *)
(* Strings are sequences of one-character strings, so that parsing,        *)
(* splitting and sorting are computed character by character.  Python's    *)
(* None is the value None below for optional strings and NoneInt for       *)
(* optional integers.                                                      *)
(***************************************************************************)
EXTENDS Integers, Sequences, FiniteSets, TLC

VARIABLES filename, parsed, dino, merges, last, canvas, drawn, pet

vars == <<filename, parsed, dino, merges, last, canvas, drawn, pet>>

(***************************************************************************)
(* Bounds of the model.                                                    *)
(***************************************************************************)
MaxStemLen == 5
MaxMerges == 2
CanvasW == 3
CanvasH == 2
MaxRenderMerges == 1

(***************************************************************************)
(* Strings.                                                                *)
(***************************************************************************)
None == <<"None">>
NoneInt == -1

Digits == <<"0", "1", "2", "3", "4", "5", "6", "7", "8", "9">>

IsDigit(c) == \E i \in 1..Len(Digits) : Digits[i] = c

DigitValue(c) == (CHOOSE i \in 1..Len(Digits) : Digits[i] = c) - 1

\* int(text) for a non-empty string of decimal digits
RECURSIVE PyInt(_)
PyInt(text) ==
    IF Len(text) = 0 THEN 0
    ELSE 10 * PyInt(SubSeq(text, 1, Len(text) - 1)) + DigitValue(text[Len(text)])

\* str.rfind(c), as a 1-based index, 0 when c does not occur
RFind(text, c) ==
    IF \E i \in 1..Len(text) : text[i] = c
    THEN CHOOSE i \in 1..Len(text) :
             text[i] = c /\ \A j \in (i + 1)..Len(text) : text[j] # c
    ELSE 0

\* str.find(c), as a 1-based index, 0 when c does not occur
Find(text, c) ==
    IF \E i \in 1..Len(text) : text[i] = c
    THEN CHOOSE i \in 1..Len(text) :
             text[i] = c /\ \A j \in 1..(i - 1) : text[j] # c
    ELSE 0

\* pathlib's PurePath.stem: the name without its last suffix
PathStem(name) ==
    LET i == RFind(name, ".")
    IN  IF 1 < i /\ i < Len(name) THEN SubSeq(name, 1, i - 1) ELSE name

\* re.search(r'_(\d+)$', stem): the start of the leftmost match, 0 for no match
FrameMatch(stem) ==
    LET Matches(p) == /\ stem[p] = "_"
                      /\ p < Len(stem)
                      /\ \A j \in (p + 1)..Len(stem) : IsDigit(stem[j])
    IN  IF \E p \in 1..Len(stem) : Matches(p)
        THEN CHOOSE p \in 1..Len(stem) :
                 Matches(p) /\ \A q \in 1..(p - 1) : ~Matches(q)
        ELSE 0

\* stem.split('_', 1) with the last underscore taken instead of the first
SplitLast(stem) ==
    LET q == RFind(stem, "_")
    IN  IF q = 0 THEN <<stem>>
        ELSE <<SubSeq(stem, 1, q - 1), SubSeq(stem, q + 1, Len(stem))>>

\* stem.split('_', 1)
SplitFirst(stem) ==
    LET q == Find(stem, "_")
    IN  IF q = 0 THEN <<stem>>
        ELSE <<SubSeq(stem, 1, q - 1), SubSeq(stem, q + 1, Len(stem))>>

parse_filename(name) ==
    LET stem0 == PathStem(name)
        m == FrameMatch(stem0)
        frame_num == IF m # 0 THEN PyInt(SubSeq(stem0, m + 1, Len(stem0)))
                     ELSE NoneInt
        stem == IF m # 0 THEN SubSeq(stem0, 1, m - 1) ELSE stem0
        parts == SplitFirst(stem)
    IN  [base_name |-> parts[1],
         variant |-> IF Len(parts) > 1 THEN parts[2] ELSE None,
         frame_num |-> frame_num]

(***************************************************************************)
(* Python dicts keep insertion order: a dict is the sequence of its        *)
(* <<key, value>> items.  Assigning to an existing key keeps its place,    *)
(* deleting a key removes its item.                                        *)
(***************************************************************************)
DictHas(d, k) == \E i \in 1..Len(d) : d[i][1] = k

DictGet(d, k) == d[CHOOSE i \in 1..Len(d) : d[i][1] = k][2]

DictSet(d, k, v) ==
    IF DictHas(d, k)
    THEN [i \in 1..Len(d) |-> IF d[i][1] = k THEN <<k, v>> ELSE d[i]]
    ELSE Append(d, <<k, v>>)

DictDel(d, k) == SelectSeq(d, LAMBDA item : item[1] # k)

DictKeys(d) == [i \in 1..Len(d) |-> d[i][1]]

DictValues(d) == [i \in 1..Len(d) |-> d[i][2]]

(***************************************************************************)
(* Names used by the loader and the renderer.                              *)
(***************************************************************************)
S_dino == <<"d", "i", "n", "o">>
S_head == <<"h", "e", "a", "d">>
S_legs == <<"l", "e", "g", "s">>
S_arms == <<"a", "r", "m", "s">>
S_tail == <<"t", "a", "i", "l">>
S_rex == <<"r", "e", "x">>
S_original == <<"o", "r", "i", "g", "i", "n", "a", "l">>
S_default == <<"d", "e", "f", "a", "u", "l", "t">>
S_happy == <<"h", "a", "p", "p", "y">>
S_blue == <<"b", "l", "u", "e">>
S_green == <<"g", "r", "e", "e", "n">>
S_long == <<"l", "o", "n", "g">>

(***************************************************************************)
(* DinoImage, DinoPartFrames, DinoData.                                    *)
(***************************************************************************)
\* DinoImage.__init__ with the default anchor: the centre, kept in half
\* pixels (anchor2 = 2 * anchor) so that it stays an integer
DinoImage(path, rgba_data) ==
    [path |-> path,
     rgba_data |-> rgba_data,
     height |-> Len(rgba_data),
     width |-> Len(rgba_data[1]),
     anchor2 |-> <<Len(rgba_data[1]), Len(rgba_data)>>]

DinoPartFrames(name, variant) ==
    [name |-> name, variant |-> variant, frames |-> <<>>]

DinoData(name) == [exists |-> TRUE, name |-> name, parts |-> <<>>]

NoDino == [exists |-> FALSE, name |-> <<>>, parts |-> <<>>]

\* add_part that adds the frame only to a sequence that already existed
add_part_lazy(d, part_name, variant, image) ==
    LET parts1 == IF DictHas(d.parts, part_name) THEN d.parts
                  ELSE DictSet(d.parts, part_name, <<>>)
        vs == DictGet(parts1, part_name)
        vs1 == IF DictHas(vs, variant) THEN vs
               ELSE DictSet(vs, variant, DinoPartFrames(part_name, variant))
        pf == DictGet(vs1, variant)
        pf1 == IF DictHas(vs, variant) THEN [pf EXCEPT !.frames = Append(@, image)]
               ELSE pf
    IN  [d EXCEPT !.parts = DictSet(parts1, part_name, DictSet(vs1, variant, pf1))]

add_part(d, part_name, variant, image) ==
    LET parts1 == IF DictHas(d.parts, part_name) THEN d.parts
                  ELSE DictSet(d.parts, part_name, <<>>)
        vs == DictGet(parts1, part_name)
        vs1 == IF DictHas(vs, variant) THEN vs
               ELSE DictSet(vs, variant, DinoPartFrames(part_name, variant))
        pf == DictGet(vs1, variant)
        pf1 == [pf EXCEPT !.frames = Append(@, image)]
    IN  [d EXCEPT !.parts = DictSet(parts1, part_name, DictSet(vs1, variant, pf1))]

\* the value get_part_frames returns for "no such part"
NoFrames == [name |-> None, variant |-> None, frames |-> <<>>]

\* get_part_frames preferring the first variant over the default one
get_part_frames_first(d, part_name, variant) ==
    IF ~DictHas(d.parts, part_name) THEN NoFrames
    ELSE LET vs == DictGet(d.parts, part_name)
         IN  IF DictHas(vs, variant) THEN DictGet(vs, variant)
             ELSE IF Len(vs) > 0 THEN vs[1][2]
             ELSE IF DictHas(vs, None) THEN DictGet(vs, None)
             ELSE NoFrames

get_part_frames(d, part_name, variant) ==
    IF ~DictHas(d.parts, part_name) THEN NoFrames
    ELSE LET vs == DictGet(d.parts, part_name)
         IN  IF DictHas(vs, variant) THEN DictGet(vs, variant)
             ELSE IF DictHas(vs, None) THEN DictGet(vs, None)
             ELSE IF Len(vs) > 0 THEN vs[1][2]
             ELSE NoFrames

get_available_variants(d, part_name) ==
    IF ~DictHas(d.parts, part_name) THEN <<>>
    ELSE DictKeys(DictGet(d.parts, part_name))

(***************************************************************************)
(* The file system the loader reads.  A root is a path a caller can pass   *)
(* to load_dinosaur or add_to_dinosaur: a file, a directory or a path that *)
(* does not exist.  Each file has its relative path below the root, the    *)
(* RGBA array its decoding yields (rows of <<r, g, b, a>> pixels) and      *)
(* whether the decoder accepts it.                                         *)
(***************************************************************************)
Png(stem) == stem \o <<".", "p", "n", "g">>

Opaque(r, g, b) == <<r, g, b, 255>>

FileEntry(rel, readable, rgba) == [rel |-> rel, readable |-> readable, rgba |-> rgba]

FS(root) ==
    CASE root = "rex.png" ->
           [kind |-> "file", name |-> Png(S_rex),
            files |-> {FileEntry(<<Png(S_rex)>>, TRUE,
                                 <<<<Opaque(9, 9, 9), <<0, 0, 0, 0>>>>,
                                   <<<<1, 2, 3, 85>>, Opaque(7, 7, 7)>>>>)}]
      [] root = "dino.png" ->
           [kind |-> "file", name |-> Png(S_dino),
            files |-> {FileEntry(<<Png(S_dino)>>, TRUE, <<<<Opaque(10, 0, 0)>>>>)}]
      [] root = "head_happy.png" ->
           [kind |-> "file", name |-> Png(S_head \o <<"_">> \o S_happy),
            files |-> {FileEntry(<<Png(S_head \o <<"_">> \o S_happy)>>, TRUE,
                                 <<<<Opaque(20, 0, 0)>>, <<<<0, 51, 0, 65>>>>>>)}]
      [] root = "torn.png" ->
           [kind |-> "file", name |-> Png(<<"t", "o", "r", "n">>),
            files |-> {FileEntry(<<Png(<<"t", "o", "r", "n">>)>>, FALSE, <<>>)}]
      [] root = "pack" ->
           [kind |-> "dir", name |-> <<"p", "a", "c", "k">>,
            files |-> {
              FileEntry(<<Png(S_legs \o <<"_", "0", "2">>)>>, TRUE, <<<<Opaque(32, 0, 0)>>>>),
              FileEntry(<<Png(S_head)>>, TRUE, <<<<Opaque(33, 0, 0), <<0, 0, 0, 0>>>>>>),
              FileEntry(<<Png(S_dino)>>, TRUE, <<<<Opaque(34, 0, 0)>>>>),
              FileEntry(<<Png(S_legs \o <<"_", "0", "1">>)>>, TRUE, <<<<Opaque(31, 0, 0)>>>>),
              FileEntry(<<Png(S_dino \o <<"_">> \o S_original)>>, TRUE,
                        <<<<Opaque(35, 0, 0)>>>>) }]
      [] root = "nested" ->
           [kind |-> "dir", name |-> <<"n", "e", "s", "t", "e", "d">>,
            files |-> {
              FileEntry(<<S_dino, Png(<<"b">>)>>, TRUE, <<<<Opaque(42, 0, 0)>>>>),
              FileEntry(<<S_dino, Png(<<"a">>)>>, TRUE, <<<<Opaque(41, 0, 0)>>>>),
              FileEntry(<<S_legs, Png(S_green \o <<"_", "0", "1">>)>>, TRUE,
                        <<<<Opaque(44, 0, 0)>>>>),
              FileEntry(<<S_legs, Png(S_blue \o <<"_", "0", "1">>)>>, TRUE,
                        <<<<Opaque(43, 0, 0)>>>>),
              FileEntry(<<S_tail, S_long, Png(<<"w", "a", "g", "_", "0", "1">>)>>, TRUE,
                        <<<<Opaque(45, 0, 0)>>>>) }]
      [] root = "extras" ->
           [kind |-> "dir", name |-> <<"e", "x", "t", "r", "a", "s">>,
            files |-> {
              FileEntry(<<Png(S_head)>>, TRUE, <<<<Opaque(53, 0, 0)>>>>),
              FileEntry(<<Png(<<"b", "r", "o", "k", "e", "n">>)>>, FALSE, <<>>),
              FileEntry(<<<<"n", "o", "t", "e", "s", ".", "t", "x", "t">>>>, TRUE, <<>>),
              FileEntry(<<Png(S_arms \o <<"_">> \o S_blue)>>, TRUE,
                        <<<<Opaque(51, 0, 0)>>>>) }]
      [] OTHER -> [kind |-> "none", name |-> <<>>, files |-> {}]

Roots == {"nowhere", "rex.png", "dino.png", "head_happy.png", "torn.png",
          "pack", "nested", "extras"}

\* Path.is_file, Path.is_dir
is_file(root) == FS(root).kind = "file"

is_dir(root) == FS(root).kind = "dir"

(***************************************************************************)
(* sorted(path.rglob('*.png')): the files whose name ends in .png, in the  *)
(* order of pathlib's comparison, which compares the lists of path         *)
(* components, each component by code point.                               *)
(***************************************************************************)
CodeOrder ==
    <<".", "0", "1", "2", "3", "4", "5", "6", "7", "8", "9", "_",
      "a", "b", "c", "d", "e", "f", "g", "h", "i", "j", "k", "l", "m",
      "n", "o", "p", "q", "r", "s", "t", "u", "v", "w", "x", "y", "z">>

Ord(c) == CHOOSE i \in 1..Len(CodeOrder) : CodeOrder[i] = c

\* a < b for two strings, compared by code point
StrLess(a, b) ==
    \E i \in 1..(Len(a) + 1) :
        /\ i <= Len(b)
        /\ \A j \in 1..(i - 1) : a[j] = b[j]
        /\ (i = Len(a) + 1 \/ Ord(a[i]) < Ord(b[i]))

\* p < q for two paths, compared as the lists of their components
PathLess(p, q) ==
    \E i \in 1..(Len(p) + 1) :
        /\ i <= Len(q)
        /\ \A j \in 1..(i - 1) : p[j] = q[j]
        /\ (i = Len(p) + 1 \/ StrLess(p[i], q[i]))

EndsWith(text, suffix) ==
    /\ Len(text) >= Len(suffix)
    /\ SubSeq(text, Len(text) - Len(suffix) + 1, Len(text)) = suffix

RECURSIVE SortedFiles(_)
SortedFiles(files) ==
    IF files = {} THEN <<>>
    ELSE LET first == CHOOSE f \in files :
                          \A g \in files \ {f} : PathLess(f.rel, g.rel)
         IN  <<first>> \o SortedFiles(files \ {first})

rglob_png(root) ==
    { f \in FS(root).files : EndsWith(f.rel[Len(f.rel)], <<".", "p", "n", "g">>) }

\* the listing of each root, computed once
SortedPngs == [root \in Roots |-> SortedFiles(rglob_png(root))]

(***************************************************************************)
(* load_dinosaur and add_to_dinosaur.  Both return the tree together with  *)
(* the exception that left the call, "" when it returned normally.         *)
(***************************************************************************)
Returned(d) == [dino |-> d, raised |-> ""]

Raised(d, exc) == [dino |-> d, raised |-> exc]

\* DinoImage.from_file raises when the decoder rejects the file
DecodeError == "UnidentifiedImageError"

\* the part, variant and frame the directory scan of load_dinosaur gives a file
LoadTarget(rel) ==
    LET p == parse_filename(rel[Len(rel)])
    IN  IF Len(rel) = 1
        THEN [part_name |-> p.base_name, variant |-> p.variant, frame_num |-> p.frame_num]
        ELSE [part_name |-> rel[1],
              variant |-> IF Len(rel) > 2 THEN rel[2] ELSE p.variant,
              frame_num |-> p.frame_num]

\* the loop of load_dinosaur over the sorted files; an exception leaves the
\* function, and the tree built so far is dropped with it
RECURSIVE LoadScan(_, _, _)
LoadScan(acc, root, todo) ==
    IF acc.raised # "" \/ Len(todo) = 0 THEN acc
    ELSE LET f == Head(todo)
             t == LoadTarget(f.rel)
         IN  IF ~f.readable THEN Raised(NoDino, DecodeError)
             ELSE LoadScan(Returned(add_part(acc.dino, t.part_name, t.variant,
                                             DinoImage(<<root, f.rel>>, f.rgba))),
                           root, Tail(todo))

\* load_dinosaur naming the part of a single file after the file
load_dinosaur_stem(root) ==
    IF is_file(root)
    THEN LET f == CHOOSE x \in FS(root).files : TRUE
         IN  IF ~f.readable THEN Raised(NoDino, DecodeError)
             ELSE Returned(add_part(DinoData(PathStem(FS(root).name)),
                                    PathStem(FS(root).name), None,
                                    DinoImage(<<root, f.rel>>, f.rgba)))
    ELSE IF is_dir(root)
    THEN LoadScan(Returned(DinoData(FS(root).name)), root, SortedPngs[root])
    ELSE Raised(NoDino, "ValueError")

load_dinosaur(root) ==
    IF is_file(root)
    THEN LET f == CHOOSE x \in FS(root).files : TRUE
         IN  IF ~f.readable THEN Raised(NoDino, DecodeError)
             ELSE Returned(add_part(DinoData(PathStem(FS(root).name)), S_dino, None,
                                    DinoImage(<<root, f.rel>>, f.rgba)))
    ELSE IF is_dir(root)
    THEN LoadScan(Returned(DinoData(FS(root).name)), root, SortedPngs[root])
    ELSE Raised(NoDino, "ValueError")

\* the loop of add_to_dinosaur over the sorted files; the tree is changed in
\* place, so an exception leaves the files merged before it in the tree
RECURSIVE MergeScan(_, _, _)
MergeScan(acc, root, todo) ==
    IF acc.raised # "" \/ Len(todo) = 0 THEN acc
    ELSE LET f == Head(todo)
             p == parse_filename(f.rel[Len(f.rel)])
         IN  IF ~f.readable THEN Raised(acc.dino, DecodeError)
             ELSE MergeScan(Returned(add_part(acc.dino, p.base_name, p.variant,
                                              DinoImage(<<root, f.rel>>, f.rgba))),
                            root, Tail(todo))

\* lines 214-225 of add_to_dinosaur: the existing default moves to 'original'
MoveDefault(d, part_name, variant) ==
    IF DictHas(d.parts, part_name) /\ DictHas(DictGet(d.parts, part_name), None)
    THEN LET vs == DictGet(d.parts, part_name)
             existing == DictGet(vs, None)
             vs1 == DictDel(DictSet(vs, S_original, existing), None)
         IN  [dino |-> [d EXCEPT !.parts = DictSet(d.parts, part_name, vs1)],
              variant |-> IF variant = None THEN S_default ELSE variant]
    ELSE [dino |-> d, variant |-> variant]

add_to_dinosaur(d, root, part_name) ==
    IF is_file(root)
    THEN LET f == CHOOSE x \in FS(root).files : TRUE
             p == parse_filename(FS(root).name)
             pn == IF part_name = None THEN p.base_name ELSE part_name
             variant == IF part_name = None THEN p.variant ELSE None
         IN  IF ~f.readable THEN Raised(d, DecodeError)
             ELSE LET m == MoveDefault(d, pn, variant)
                  IN  Returned(add_part(m.dino, pn, m.variant,
                                        DinoImage(<<root, f.rel>>, f.rgba)))
    ELSE IF is_dir(root)
    THEN MergeScan(Returned(d), root, SortedPngs[root])
    ELSE Returned(d)

(***************************************************************************)
(* Single-precision arithmetic, as numpy does it on float32 arrays.  A     *)
(* non-negative float32 is [m, e], standing for m * 2^e, with m = 0 or     *)
(* 2^23 <= m < 2^24.  Every operation gives the exact result rounded to    *)
(* the nearest float32, ties to the even mantissa.  Products of two        *)
(* mantissas are kept in two halves so that no intermediate value needs    *)
(* more than 31 bits.                                                      *)
(***************************************************************************)
Two12 == 4096
Two23 == 8388608
Two24 == 16777216

RECURSIVE TwoToThe(_)
TwoToThe(n) == IF n = 0 THEN 1 ELSE 2 * TwoToThe(n - 1)

\* the powers of two that fit 31 bits, computed once
PowersOfTwo == [n \in 0..30 |-> TwoToThe(n)]

Pow2(n) == PowersOfTwo[n]

F32Zero == [m |-> 0, e |-> 0]

F32One == [m |-> Two23, e |-> -23]

\* m * 2^e for an exact m below 2^24, brought to the normal form
RECURSIVE F32Normal(_, _)
F32Normal(m, e) ==
    IF m = 0 THEN F32Zero
    ELSE IF m < Two23 THEN F32Normal(2 * m, e - 1)
    ELSE [m |-> m, e |-> e]

\* (m + num/den) * 2^e with 2^23 <= m < 2^24 and 0 <= num < den, rounded
F32Round(m, e, num, den) ==
    LET up == 2 * num > den \/ (2 * num = den /\ m % 2 = 1)
        m1 == IF up THEN m + 1 ELSE m
    IN  IF m1 = Two24 THEN [m |-> Two23, e |-> e + 1] ELSE [m |-> m1, e |-> e]

\* astype(np.float32) of a channel value, computed once for each value
F32OfByte == [n \in 0..255 |-> F32Normal(n, 0)]

\* astype(np.float32) of an integer of at most 24 bits
F32FromInt(n) == IF n \in 0..255 THEN F32OfByte[n] ELSE F32Normal(n, 0)

\* the quotient bits of n / d, one at a time, until the mantissa is full
RECURSIVE F32DivSteps(_, _, _, _)
F32DivSteps(q, r, d, e) ==
    IF q >= Two23 THEN F32Round(q, e, r, d)
    ELSE F32DivSteps(2 * q + (IF 2 * r >= d THEN 1 ELSE 0), (2 * r) % d, d, e - 1)

\* float32(n) / d for integers 0 <= n and 0 < d < 2^24
F32DivInt(n, d) ==
    IF n = 0 THEN F32Zero ELSE F32DivSteps(n \div d, n % d, d, 0)

\* x * y
F32Mul(x, y) ==
    IF x.m = 0 \/ y.m = 0 THEN F32Zero
    ELSE LET a1 == x.m \div Two12
             a0 == x.m % Two12
             b1 == y.m \div Two12
             b0 == y.m % Two12
             mid == a1 * b0 + a0 * b1
             low0 == a0 * b0 + (mid % Two12) * Two12
             high == a1 * b1 + (mid \div Two12) + (low0 \div Two24)
             low == low0 % Two24
         IN  IF high >= Two23
             THEN F32Round(high, x.e + y.e + 24, low, Two24)
             ELSE F32Round(2 * high + (low \div Two23), x.e + y.e + 23,
                           low % Two23, Two23)

\* x + y
F32Add(x, y) ==
    IF x.m = 0 THEN y
    ELSE IF y.m = 0 THEN x
    ELSE LET big == IF x.e >= y.e THEN x ELSE y
             small == IF x.e >= y.e THEN y ELSE x
             d == big.e - small.e
         IN  IF d >= 26 THEN big
             ELSE LET sq == small.m \div Pow2(d)
                      sr == small.m % Pow2(d)
                      sum == big.m + sq
                  IN  IF sum < Two24 THEN F32Round(sum, big.e, sr, Pow2(d))
                      ELSE F32Round(sum \div 2, big.e + 1,
                                    (sum % 2) * Pow2(d) + sr, Pow2(d + 1))

\* 1.0 - x for 0 <= x <= 1
F32OneMinus(x) ==
    IF x.m = 0 THEN F32One
    ELSE IF x = F32One THEN F32Zero
    ELSE LET s == (-24) - x.e
         IN  IF s = 0 THEN F32Normal(Two24 - x.m, -24)
             ELSE IF s >= 25 THEN F32One
             ELSE LET qh == x.m \div Pow2(s)
                      rm == x.m % Pow2(s)
                  IN  IF rm = 0 THEN F32Normal(Two24 - qh, -24)
                      ELSE F32Round(Two24 - qh - 1, -24, Pow2(s) - rm, Pow2(s))

\* astype(np.uint8) rounding to the nearest integer instead of truncating
F32ToUint8Nearest(x) ==
    IF x.m = 0 THEN 0
    ELSE IF x.e >= 0 THEN x.m * Pow2(x.e)
    ELSE IF -x.e > 25 THEN 0
    ELSE ((x.m \div Pow2((-x.e) - 1)) + 1) \div 2

\* astype(np.uint8) of a float32 in the range of uint8: the fraction is cut
\* off.  numpy does not define the conversion of a value above 255; the
\* value is kept as it is so that a channel leaving the range shows.
F32ToUint8(x) ==
    IF x.m = 0 THEN 0
    ELSE IF x.e >= 0 THEN x.m * Pow2(x.e)
    ELSE IF -x.e > 24 THEN 0
    ELSE x.m \div Pow2(-x.e)

(***************************************************************************)
(* The alpha compositing of one pixel, lines 108-122 of composite_image.   *)
(* A pixel is <<r, g, b, a>>.                                              *)
(***************************************************************************)
\* astype(np.float32) / 255.0 of an alpha value, computed once for each value
AlphaF32 == [a \in 0..255 |-> F32DivInt(a, 255)]

\* 1.0 - alpha_src, computed once for each value
OneMinusAlphaF32 == [a \in 0..255 |-> F32OneMinus(AlphaF32[a])]

\* rgb_src * alpha_src + rgb_dst * (1.0 - alpha_src) for one channel
BlendChannel(c_src, c_dst, a_src) ==
    F32ToUint8(F32Add(F32Mul(F32FromInt(c_src), AlphaF32[a_src]),
                      F32Mul(F32FromInt(c_dst), OneMinusAlphaF32[a_src])))

\* (alpha_src + alpha_dst * (1.0 - alpha_src)) * 255.0
BlendAlpha(a_src, a_dst) ==
    LET alpha_out == F32Add(AlphaF32[a_src],
                            F32Mul(AlphaF32[a_dst], OneMinusAlphaF32[a_src]))
    IN  F32ToUint8(F32Mul(alpha_out, F32FromInt(255)))

BlendPixel(src, dst) ==
    <<BlendChannel(src[1], dst[1], src[4]),
      BlendChannel(src[2], dst[2], src[4]),
      BlendChannel(src[3], dst[3], src[4]),
      BlendAlpha(src[4], dst[4])>>

(***************************************************************************)
(* composite_image.  An RGBA array is the sequence of its rows, a row the  *)
(* sequence of its pixels.  x and y are whole pixels; scale2 is the scale  *)
(* in halves (scale = scale2 / 2), so that 0.5 and 1.5 can be passed.      *)
(***************************************************************************)
Reverse(seq) == [i \in 1..Len(seq) |-> seq[Len(seq) + 1 - i]]

\* np.fliplr, np.flipud
fliplr(a) == [r \in 1..Len(a) |-> Reverse(a[r])]

flipud(a) == Reverse(a)

\* int(v) of the float v = num / den: the fraction is cut off, towards zero
PyIntOfQuotient(num, den) ==
    IF num >= 0 THEN num \div den ELSE -((-num) \div den)

Max(a, b) == IF a >= b THEN a ELSE b

Min(a, b) == IF a <= b THEN a ELSE b

\* lines 65-66: the top-left corner of the image on the canvas
DstCorner(image, x, y, scale2) ==
    [x |-> PyIntOfQuotient(4 * x - image.anchor2[1] * scale2, 4),
     y |-> PyIntOfQuotient(4 * y - image.anchor2[2] * scale2, 4)]

\* lines 72-81: the source resampled to int(w * scale) by int(h * scale)
ScaleNearest(src, scale2) ==
    LET scaled_w == (Len(src[1]) * scale2) \div 2
        scaled_h == (Len(src) * scale2) \div 2
    IN  [w |-> scaled_w,
         h |-> scaled_h,
         rgba |-> IF scale2 = 2 THEN src
                  ELSE [r \in 1..scaled_h |->
                          [c \in 1..scaled_w |->
                             src[((2 * (r - 1)) \div scale2) + 1]
                                [((2 * (c - 1)) \div scale2) + 1]]]]

\* the overlap region without the clipping of a corner left of or above
\* the canvas
OverlapUnclipped(dst_x, dst_y, src_w, src_h, canvas_w, canvas_h) ==
    LET src_x_start == 0
        src_y_start == 0
        src_x_end == Min(src_w, canvas_w - dst_x)
        src_y_end == Min(src_h, canvas_h - dst_y)
        dst_x_start == Max(0, dst_x)
        dst_y_start == Max(0, dst_y)
    IN  [src_x_start |-> src_x_start, src_y_start |-> src_y_start,
         src_x_end |-> src_x_end, src_y_end |-> src_y_end,
         dst_x_start |-> dst_x_start, dst_y_start |-> dst_y_start,
         dst_x_end |-> dst_x_start + (src_x_end - src_x_start),
         dst_y_end |-> dst_y_start + (src_y_end - src_y_start)]

\* lines 87-95: the overlap region, as slice bounds of the source and of
\* the canvas
Overlap(dst_x, dst_y, src_w, src_h, canvas_w, canvas_h) ==
    LET src_x_start == Max(0, -dst_x)
        src_y_start == Max(0, -dst_y)
        src_x_end == Min(src_w, canvas_w - dst_x)
        src_y_end == Min(src_h, canvas_h - dst_y)
        dst_x_start == Max(0, dst_x)
        dst_y_start == Max(0, dst_y)
    IN  [src_x_start |-> src_x_start, src_y_start |-> src_y_start,
         src_x_end |-> src_x_end, src_y_end |-> src_y_end,
         dst_x_start |-> dst_x_start, dst_y_start |-> dst_y_start,
         dst_x_end |-> dst_x_start + (src_x_end - src_x_start),
         dst_y_end |-> dst_y_start + (src_y_end - src_y_start)]

composite_image(cv, image, x, y, flip_h, flip_v, scale2) ==
    LET src1 == IF flip_h THEN fliplr(image.rgba_data) ELSE image.rgba_data
        src2 == IF flip_v THEN flipud(src1) ELSE src1
        dst == DstCorner(image, x, y, scale2)
        scaled == ScaleNearest(src2, scale2)
        src == scaled.rgba
        canvas_h == Len(cv)
        canvas_w == Len(cv[1])
        o == Overlap(dst.x, dst.y, scaled.w, scaled.h, canvas_w, canvas_h)
    IN  IF o.src_x_end <= o.src_x_start \/ o.src_y_end <= o.src_y_start THEN cv
        ELSE [r \in 1..canvas_h |->
                [c \in 1..canvas_w |->
                   IF /\ o.dst_y_start <= r - 1 /\ r - 1 < o.dst_y_end
                      /\ o.dst_x_start <= c - 1 /\ c - 1 < o.dst_x_end
                   THEN BlendPixel(src[o.src_y_start + (r - 1 - o.dst_y_start) + 1]
                                      [o.src_x_start + (c - 1 - o.dst_x_start) + 1],
                                   cv[r][c])
                   ELSE cv[r][c]]]

\* create_canvas
create_canvas(width, height) == [r \in 1..height |-> [c \in 1..width |-> <<0, 0, 0, 0>>]]

\* clear_canvas
clear_canvas(cv, color) == [r \in 1..Len(cv) |-> [c \in 1..Len(cv[1]) |-> color]]

\* the colour DinoPet.render clears the canvas to
SkyBlue == <<135, 206, 235, 255>>

(***************************************************************************)
(* render_dinosaur.                                                        *)
(***************************************************************************)
render_order == <<S_tail, S_dino, S_legs, S_arms, S_head>>

\* dict.get(key, default)
DictGetOr(d, k, default) == IF DictHas(d, k) THEN DictGet(d, k) ELSE default

\* get_frame without the wrap-around: an index past the end gives the last
\* frame, one before the start the first
get_frame_clamped(pf, index) ==
    IF Len(pf.frames) = 0 THEN [raised |-> "ValueError", image |-> pf]
    ELSE [raised |-> "",
          image |-> pf.frames[Max(1, Min(index + 1, Len(pf.frames)))]]

\* DinoPartFrames.get_frame
get_frame(pf, index) ==
    IF Len(pf.frames) = 0 THEN [raised |-> "ValueError", image |-> pf]
    ELSE [raised |-> "", image |-> pf.frames[(index % Len(pf.frames)) + 1]]

\* the loop of render_dinosaur over the parts still to draw; acc holds the
\* canvas, the composite_image calls made and the exception raised
RECURSIVE RenderParts(_, _, _, _, _, _, _, _, _)
RenderParts(acc, d, todo, x, y, current_variants, current_frames, flip_h, scale2) ==
    IF acc.raised # "" \/ Len(todo) = 0 THEN acc
    ELSE LET part_name == Head(todo)
             variant == DictGetOr(current_variants, part_name, None)
             frame_idx == DictGetOr(current_frames, part_name, 0)
             part_frames == get_part_frames(d, part_name, variant)
             rest == Tail(todo)
         IN  IF part_frames = NoFrames \/ Len(part_frames.frames) = 0
             THEN RenderParts(acc, d, rest, x, y, current_variants, current_frames,
                              flip_h, scale2)
             ELSE LET got == get_frame(part_frames, frame_idx)
                  IN  IF got.raised # "" THEN [acc EXCEPT !.raised = got.raised]
                      ELSE RenderParts(
                             [canvas |-> composite_image(acc.canvas, got.image, x, y,
                                                         flip_h, FALSE, scale2),
                              calls |-> Append(acc.calls,
                                               [before |-> acc.canvas, image |-> got.image,
                                                x |-> x, y |-> y, flip_h |-> flip_h,
                                                flip_v |-> FALSE, scale2 |-> scale2]),
                              raised |-> ""],
                             d, rest, x, y, current_variants, current_frames,
                             flip_h, scale2)

render_dinosaur(cv, d, x, y, current_variants, current_frames, flip_h, scale2) ==
    RenderParts([canvas |-> cv, calls |-> <<>>, raised |-> ""], d, render_order,
                x, y, current_variants, current_frames, flip_h, scale2)

(***************************************************************************)
(* The file names parse_filename is applied to: every stem of at most      *)
(* MaxStemLen characters over StemChars, and the four stems of the         *)
(* docstring, each followed by the extension.                              *)
(***************************************************************************)
StemChars == {"a", "b", "0", "7", "_"}

PngExt == <<".", "p", "n", "g">>

DocStems ==
    { <<"d", "i", "n", "o">>,
      <<"l", "e", "g", "s", "_", "0", "1">>,
      <<"h", "e", "a", "d", "_", "h", "a", "p", "p", "y">>,
      <<"l", "e", "g", "s", "_", "b", "l", "u", "e", "_", "0", "3">> }

Stems == UNION { [1..n -> StemChars] : n \in 1..MaxStemLen } \cup DocStems

NotParsed == [base_name |-> None, variant |-> None, frame_num |-> -2]

(***************************************************************************)
(* The loader as its callers drive it.  last records the most recent call: *)
(* its arguments, the tree before it, the exception it raised and, for     *)
(* get_part_frames, its result.                                            *)
(***************************************************************************)
\* the host application before a dinosaur is hatched: no selections, no
\* dropdowns, no entry chosen
NoPet ==
    [current_variants |-> <<>>, current_frames |-> <<>>,
     variant_widgets |-> <<>>, chosen |-> <<>>]

Call(op, path, part_name, variant, before, raised, ret) ==
    [op |-> op, path |-> path, part_name |-> part_name, variant |-> variant,
     before |-> before, raised |-> raised, ret |-> ret,
     current_variants |-> <<>>, current_frames |-> <<>>]

NoCall == Call("none", "nowhere", None, None, NoDino, "", NoFrames)

\* the explicit part names a caller passes to add_to_dinosaur
MergePartNames == {None, S_dino}

\* the parts and variants get_part_frames is asked for
QueryParts == {S_dino, S_head, <<"w", "i", "n", "g">>}

QueryVariants == {None, S_happy, <<"z">>}

Init ==
    /\ filename = <<>>
    /\ parsed = NotParsed
    /\ dino = NoDino
    /\ merges = 0
    /\ last = NoCall
    /\ canvas = <<>>
    /\ drawn = <<>>
    /\ pet = NoPet

\* the file system does not change: what load_dinosaur returns for each root
Loaded == [root \in Roots |-> load_dinosaur(root)]

\* dino = load_dinosaur(path); an exception leaves the caller's tree as it was
Load(root) ==
    LET r == Loaded[root]
    IN  /\ dino' = IF r.raised = "" THEN r.dino ELSE dino
        /\ merges' = IF r.raised = "" THEN 0 ELSE merges
        /\ last' = Call("load_dinosaur", root, None, None, dino, r.raised, NoFrames)
        /\ UNCHANGED <<filename, parsed, canvas, drawn, pet>>

\* add_to_dinosaur(dino, path, part_name)
Merge(root, part_name) ==
    /\ dino.exists
    /\ merges < MaxMerges
    /\ LET r == add_to_dinosaur(dino, root, part_name)
       IN  /\ dino' = r.dino
           /\ last' = Call("add_to_dinosaur", root, part_name, None, dino, r.raised,
                           NoFrames)
    /\ merges' = merges + 1
    /\ UNCHANGED <<filename, parsed, canvas, drawn, pet>>

\* dino.get_part_frames(part_name, variant)
Resolve(part_name, variant) ==
    /\ dino.exists
    /\ last' = Call("get_part_frames", "nowhere", part_name, variant, dino, "",
                    get_part_frames(dino, part_name, variant))
    /\ UNCHANGED <<filename, parsed, dino, merges, canvas, drawn, pet>>

Next ==
    \/ \E root \in Roots : Load(root)
    \/ \E root \in Roots, part_name \in MergePartNames : Merge(root, part_name)
    \/ \E part_name \in QueryParts, variant \in QueryVariants :
           Resolve(part_name, variant)

Spec == Init /\ [][Next]_vars

(***************************************************************************)
(* Properties of the tree.                                                 *)
(***************************************************************************)
\* the positions of a variant dict whose key is k
Slots(vs, k) == { i \in 1..Len(vs) : vs[i][1] = k }

PartNamesOf(d) == { d.parts[i][1] : i \in 1..Len(d.parts) }

VariantKeysOf(d) ==
    UNION { { d.parts[i][2][j][1] : j \in 1..Len(d.parts[i][2]) } : i \in 1..Len(d.parts) }

\* what the claim C1 says get_part_frames returns
ResolvesAsClaimed(d, part_name, variant, ret) ==
    /\ (ret = NoFrames) <=> (part_name \notin PartNamesOf(d))
    /\ \A i \in 1..Len(d.parts) :
         d.parts[i][1] = part_name =>
           LET vs == d.parts[i][2]
           IN  /\ \A j \in Slots(vs, variant) : ret = vs[j][2]
               /\ Slots(vs, variant) = {} =>
                    /\ \A j \in Slots(vs, None) : ret = vs[j][2]
                    /\ Slots(vs, None) = {} => ret = vs[1][2]

\* C1: get_part_frames returns the sequence under the requested variant if
\* the part has it, otherwise the part's default, otherwise the part's first
\* variant, and nothing exactly when the part does not exist; the result of
\* a recorded call is that of any other call on the same tree.
C1_ResolveOrder ==
    /\ dino.exists =>
         \A part_name \in PartNamesOf(dino) \cup QueryParts :
           \A variant \in VariantKeysOf(dino) \cup QueryVariants :
             ResolvesAsClaimed(dino, part_name, variant,
                               get_part_frames(dino, part_name, variant))
    /\ last.op = "get_part_frames" =>
         ResolvesAsClaimed(dino, last.part_name, last.variant, last.ret)

\* a call that fell through to the first variant of a part that has no
\* default and several named variants, none of them the requested one
C1_Witness ==
    /\ last.op = "get_part_frames"
    /\ DictHas(dino.parts, last.part_name)
    /\ LET vs == DictGet(dino.parts, last.part_name)
       IN  /\ Len(vs) >= 2
           /\ Slots(vs, last.variant) = {}
           /\ Slots(vs, None) = {}
           /\ last.ret = vs[1][2]
           /\ Len(last.ret.frames) > 0

\* C2: every part of the tree has at least one variant entry and every
\* variant entry has at least one frame, after any load and merges, failed
\* ones included.
C2_NoEmptyPart ==
    \A i \in 1..Len(dino.parts) :
        /\ Len(dino.parts[i][2]) >= 1
        /\ \A j \in 1..Len(dino.parts[i][2]) : Len(dino.parts[i][2][j][2].frames) >= 1

\* a directory merge that failed half way after an earlier merge
C2_Witness ==
    /\ last.op = "add_to_dinosaur"
    /\ last.raised # ""
    /\ is_dir(last.path)
    /\ dino # last.before
    /\ merges = 2

\* the part and variant a single-file merge aims at
MergeTarget(root, part_name) ==
    LET p == parse_filename(FS(root).name)
    IN  IF part_name = None THEN [part_name |-> p.base_name, variant |-> p.variant]
        ELSE [part_name |-> part_name, variant |-> None]

\* the last call merged a single file into a part that had a default
MergedIntoDefault ==
    /\ last.op = "add_to_dinosaur"
    /\ is_file(last.path)
    /\ last.raised = ""
    /\ LET t == MergeTarget(last.path, last.part_name)
       IN  /\ DictHas(last.before.parts, t.part_name)
           /\ DictHas(DictGet(last.before.parts, t.part_name), None)

\* C3: after a single-file merge into a part that had a default, the part
\* has exactly one entry under the "no variant" key.
C3_OneDefault ==
    MergedIntoDefault =>
      LET t == MergeTarget(last.path, last.part_name)
      IN  Cardinality(Slots(DictGet(dino.parts, t.part_name), None)) = 1

\* C4: a single-file merge whose incoming variant is a named one leaves the
\* part's existing default under the "no variant" key with its frames.
C4_RenameOnlyOnCollision ==
    (MergedIntoDefault /\ MergeTarget(last.path, last.part_name).variant # None) =>
      LET t == MergeTarget(last.path, last.part_name)
          vs == DictGet(dino.parts, t.part_name)
      IN  /\ DictHas(vs, None)
          /\ DictGet(vs, None) = DictGet(DictGet(last.before.parts, t.part_name), None)

\* C5: load and merge raise when the path is neither a file nor a
\* directory, and the merge leaves the tree as it was.
C5_PathNotFound ==
    (/\ last.op \in {"load_dinosaur", "add_to_dinosaur"}
     /\ ~is_file(last.path)
     /\ ~is_dir(last.path)) =>
      /\ last.raised # ""
      /\ dino = last.before

\* the image DinoImage.from_file makes of a root that is a single file
ImageOfFile(root) ==
    LET f == CHOOSE x \in FS(root).files : TRUE
    IN  DinoImage(<<root, f.rel>>, f.rgba)

LoadedSingleFile ==
    /\ last.op = "load_dinosaur"
    /\ is_file(last.path)
    /\ last.raised = ""

\* the tree has one part, of the given name, with one entry, the default,
\* holding the image of the loaded file as its only frame
SinglePartTree(part_name) ==
    /\ Len(dino.parts) = 1
    /\ dino.parts[1][1] = part_name
    /\ Len(dino.parts[1][2]) = 1
    /\ dino.parts[1][2][1][1] = None
    /\ dino.parts[1][2][1][2].frames = <<ImageOfFile(last.path)>>

\* C6 as stated: loading a single file gives one part named after the file,
\* with one default entry of one frame.
C6_PartNamedAfterFile ==
    LoadedSingleFile => SinglePartTree(PathStem(FS(last.path).name))

\* C6 as amended: loading a single file gives a tree named after the file
\* whose one part is named dino, with one default entry of one frame.
C6_PartNamedDino ==
    LoadedSingleFile =>
      /\ SinglePartTree(S_dino)
      /\ dino.name = PathStem(FS(last.path).name)

C6_Witness ==
    /\ LoadedSingleFile
    /\ last.path = "rex.png"
    /\ dino.name = S_rex
    /\ dino.parts[1][1] = S_dino

(***************************************************************************)
(* parse_filename applied to each file name.                               *)
(***************************************************************************)
InitParse ==
    /\ filename \in { s \o PngExt : s \in Stems }
    /\ parsed = NotParsed
    /\ dino = NoDino
    /\ merges = 0
    /\ last = NoCall
    /\ canvas = <<>>
    /\ drawn = <<>>
    /\ pet = NoPet

Parse ==
    /\ parsed = NotParsed
    /\ parsed' = parse_filename(filename)
    /\ UNCHANGED <<filename, dino, merges, last, canvas, drawn, pet>>

NextParse == Parse

SpecParse == InitParse /\ [][NextParse]_vars

(***************************************************************************)
(* Properties of parse_filename.                                           *)
(***************************************************************************)
\* the stem of the file name under test: the name without its extension
StemOf(name) == SubSeq(name, 1, Len(name) - Len(PngExt))

\* the length of the longest run of digits a string ends with
DigitRun(text) ==
    CHOOSE k \in 0..Len(text) :
        /\ \A i \in (Len(text) - k + 1)..Len(text) : IsDigit(text[i])
        /\ (k = Len(text) \/ ~IsDigit(text[Len(text) - k]))

\* the string ends with an underscore followed by one or more digits
EndsWithFrame(text) ==
    /\ DigitRun(text) >= 1
    /\ DigitRun(text) < Len(text)
    /\ text[Len(text) - DigitRun(text)] = "_"

RECURSIVE Pow10(_)
Pow10(n) == IF n = 0 THEN 1 ELSE 10 * Pow10(n - 1)

RECURSIVE DecimalValue(_)
DecimalValue(text) ==
    IF Len(text) = 0 THEN 0
    ELSE DigitValue(Head(text)) * Pow10(Len(text) - 1) + DecimalValue(Tail(text))

\* C7: the frame index is the value of a trailing _<digits> suffix, absent
\* without one; the base name is what precedes the first underscore of the
\* rest and holds no underscore; the variant is what follows that
\* underscore, absent without one; the four documented examples parse as
\* documented.
C7_ParseFilename ==
    parsed # NotParsed =>
      LET stem == StemOf(filename)
          k == DigitRun(stem)
          rest == IF EndsWithFrame(stem) THEN SubSeq(stem, 1, Len(stem) - k - 1)
                  ELSE stem
      IN  /\ parsed.frame_num =
               IF EndsWithFrame(stem)
               THEN DecimalValue(SubSeq(stem, Len(stem) - k + 1, Len(stem)))
               ELSE NoneInt
          /\ \A i \in 1..Len(parsed.base_name) : parsed.base_name[i] # "_"
          /\ IF \E i \in 1..Len(rest) : rest[i] = "_"
             THEN /\ parsed.variant # None
                  /\ rest = parsed.base_name \o <<"_">> \o parsed.variant
             ELSE /\ parsed.variant = None
                  /\ rest = parsed.base_name
          /\ stem = S_dino =>
               parsed = [base_name |-> S_dino, variant |-> None, frame_num |-> NoneInt]
          /\ stem = S_legs \o <<"_", "0", "1">> =>
               parsed = [base_name |-> S_legs, variant |-> None, frame_num |-> 1]
          /\ stem = S_head \o <<"_">> \o S_happy =>
               parsed = [base_name |-> S_head, variant |-> S_happy, frame_num |-> NoneInt]
          /\ stem = S_legs \o <<"_">> \o S_blue \o <<"_", "0", "3">> =>
               parsed = [base_name |-> S_legs, variant |-> S_blue, frame_num |-> 3]

\* a stem with a variant that itself holds an underscore, and a frame suffix
C7_Witness ==
    /\ StemOf(filename) = <<"a", "_", "b", "_", "7">>
    /\ parsed = [base_name |-> <<"a">>, variant |-> <<"b">>, frame_num |-> 7]

\* a stem whose variant holds an underscore
C7_WitnessNested ==
    /\ StemOf(filename) = <<"a", "_", "_", "b">>
    /\ parsed = [base_name |-> <<"a">>, variant |-> <<"_", "b">>, frame_num |-> NoneInt]

(***************************************************************************)
(* composite_image applied to a canvas.  drawn holds the call: its         *)
(* arguments and the canvas before it.                                     *)
(***************************************************************************)
CompositeCall(before, image, x, y, flip_h, flip_v, scale2) ==
    [before |-> before, image |-> image, x |-> x, y |-> y,
     flip_h |-> flip_h, flip_v |-> flip_v, scale2 |-> scale2]

\* the pixels of the canvases that are not of one colour
Palette ==
    << <<51, 102, 153, 200>>, <<204, 255, 0, 85>>, <<255, 51, 1, 255>>,
       <<0, 0, 0, 0>>, <<102, 7, 254, 1>>, <<153, 204, 255, 128>> >>

Patchwork ==
    [r \in 1..CanvasH |->
       [c \in 1..CanvasW |-> Palette[(((r - 1) * CanvasW + (c - 1)) % Len(Palette)) + 1]]]

InitCanvases ==
    { create_canvas(CanvasW, CanvasH),
      clear_canvas(create_canvas(CanvasW, CanvasH), SkyBlue),
      Patchwork }

\* the images composited: decoded arrays of several shapes and alphas
SamplePath(n) == <<"sample", <<<<"s", Digits[n + 1]>>>>>>

CompositeImages ==
    { DinoImage(SamplePath(1), <<<<<<255, 0, 0, 255>>>>>>),
      DinoImage(SamplePath(2), <<<<<<77, 88, 99, 0>>>>>>),
      DinoImage(SamplePath(3), <<<<<<0, 1, 255, 65>>>>>>),
      DinoImage(SamplePath(4), <<<<<<10, 20, 30, 85>>, <<200, 100, 50, 170>>>>>>),
      DinoImage(SamplePath(5), <<<<<<1, 2, 3, 255>>>>, <<<<250, 128, 64, 254>>>>>>),
      DinoImage(SamplePath(6), <<<<<<11, 12, 13, 255>>, <<21, 22, 23, 0>>, <<31, 32, 33, 153>>>>,
                                 <<<<41, 42, 43, 1>>, <<51, 52, 53, 255>>, <<61, 62, 63, 127>>>>>>) }

XRange == (-3)..(CanvasW + 2)

YRange == (-3)..(CanvasH + 2)

\* the scales passed, in halves: 0, 0.5, 1.0, 1.5 and 2.0
ScaleHalves == {0, 1, 2, 3, 4}

InitComposite ==
    /\ filename = <<>>
    /\ parsed = NotParsed
    /\ dino = NoDino
    /\ merges = 0
    /\ last = NoCall
    /\ canvas \in InitCanvases
    /\ drawn = <<>>
    /\ pet = NoPet

Composite(image, x, y, flip_h, flip_v, scale2) ==
    /\ drawn = <<>>
    /\ canvas' = composite_image(canvas, image, x, y, flip_h, flip_v, scale2)
    /\ drawn' = <<CompositeCall(canvas, image, x, y, flip_h, flip_v, scale2)>>
    /\ UNCHANGED <<filename, parsed, dino, merges, last, pet>>

NextComposite ==
    \E image \in CompositeImages, x \in XRange, y \in YRange,
       flip_h \in BOOLEAN, flip_v \in BOOLEAN, scale2 \in ScaleHalves :
        Composite(image, x, y, flip_h, flip_v, scale2)

SpecComposite == InitComposite /\ [][NextComposite]_vars

(***************************************************************************)
(* Properties of composite_image.                                          *)
(***************************************************************************)
\* the pixel at column i, row j (from 0) of the image as placed: flipped,
\* then scaled by scale2 / 2
PlacedPixel(call, i, j) ==
    LET a == call.image.rgba_data
        jj == (2 * j) \div call.scale2
        ii == (2 * i) \div call.scale2
        row == IF call.flip_v THEN Len(a) - jj ELSE jj + 1
        col == IF call.flip_h THEN Len(a[1]) - ii ELSE ii + 1
    IN  a[row][col]

PlacedW(call) == (Len(call.image.rgba_data[1]) * call.scale2) \div 2

PlacedH(call) == (Len(call.image.rgba_data) * call.scale2) \div 2

\* the canvas pixel at row r, column c (from 1) lies under the placed image
Covered(call, r, c) ==
    LET corner == DstCorner(call.image, call.x, call.y, call.scale2)
    IN  /\ 0 <= (c - 1) - corner.x /\ (c - 1) - corner.x < PlacedW(call)
        /\ 0 <= (r - 1) - corner.y /\ (r - 1) - corner.y < PlacedH(call)

\* the pixel of the placed image that lies over the canvas pixel
SourceOver(call, r, c) ==
    LET corner == DstCorner(call.image, call.x, call.y, call.scale2)
    IN  PlacedPixel(call, (c - 1) - corner.x, (r - 1) - corner.y)

\* the source-over formulas in exact arithmetic, the fraction cut off
ExactColour(c_src, c_dst, a_src) == (c_src * a_src + c_dst * (255 - a_src)) \div 255

ExactAlpha(a_src, a_dst) == (255 * a_src + a_dst * (255 - a_src)) \div 255

\* the claims of C9 that do not depend on how the colour is rounded
BlendBasics(s, d, n) ==
    /\ s[4] = 255 => n = <<s[1], s[2], s[3], 255>>
    /\ s[4] = 0 => n = d
    /\ \A k \in 1..4 : n[k] \in 0..255
    /\ n[4] = ExactAlpha(s[4], d[4])

\* C9 as stated: an opaque source pixel replaces the canvas pixel, a
\* transparent one leaves it, and every channel is in 0..255 and is the
\* source-over result with the fraction cut off.
C9_ExactSourceOver ==
    drawn # <<>> =>
      \A r \in 1..Len(canvas) : \A c \in 1..Len(canvas[1]) :
        Covered(drawn[1], r, c) =>
          LET s == SourceOver(drawn[1], r, c)
              d == drawn[1].before[r][c]
              n == canvas[r][c]
          IN  /\ BlendBasics(s, d, n)
              /\ \A k \in 1..3 : n[k] = ExactColour(s[k], d[k], s[4])

\* C9 as amended: as above, but a colour channel, computed in single
\* precision, is the exact source-over result with the fraction cut off or
\* one less than it.
C9_Float32SourceOver ==
    drawn # <<>> =>
      \A r \in 1..Len(canvas) : \A c \in 1..Len(canvas[1]) :
        Covered(drawn[1], r, c) =>
          LET s == SourceOver(drawn[1], r, c)
              d == drawn[1].before[r][c]
              n == canvas[r][c]
          IN  /\ BlendBasics(s, d, n)
              /\ \A k \in 1..3 :
                   n[k] \in {ExactColour(s[k], d[k], s[4]) - 1,
                             ExactColour(s[k], d[k], s[4])}

\* a half-transparent pixel was blended and a colour channel came out one
\* below the exact result
C9_Witness ==
    /\ drawn # <<>>
    /\ \E r \in 1..Len(canvas) : \E c \in 1..Len(canvas[1]) :
         /\ Covered(drawn[1], r, c)
         /\ SourceOver(drawn[1], r, c)[4] \notin {0, 255}
         /\ \E k \in 1..3 :
              canvas[r][c][k] = ExactColour(SourceOver(drawn[1], r, c)[k],
                                            drawn[1].before[r][c][k],
                                            SourceOver(drawn[1], r, c)[4]) - 1

\* C10: the canvas pixels under the placed image become the blend of the
\* image pixel at the matching offset, every other pixel keeps its value,
\* and an image that lies wholly outside the canvas or has no size leaves
\* the canvas as it was.
C10_Clipping ==
    drawn # <<>> =>
      /\ \A r \in 1..Len(canvas) : \A c \in 1..Len(canvas[1]) :
           canvas[r][c] = IF Covered(drawn[1], r, c)
                          THEN BlendPixel(SourceOver(drawn[1], r, c),
                                          drawn[1].before[r][c])
                          ELSE drawn[1].before[r][c]
      /\ (\A r \in 1..Len(canvas) : \A c \in 1..Len(canvas[1]) :
            ~Covered(drawn[1], r, c)) => canvas = drawn[1].before

\* a flipped, enlarged image that sticks out to the left of and above the
\* canvas, drawn over part of it
C10_Witness ==
    /\ drawn # <<>>
    /\ drawn[1].flip_h
    /\ drawn[1].scale2 = 4
    /\ DstCorner(drawn[1].image, drawn[1].x, drawn[1].y, drawn[1].scale2).x < 0
    /\ DstCorner(drawn[1].image, drawn[1].x, drawn[1].y, drawn[1].scale2).y < 0
    /\ \E r \in 1..Len(canvas) : \E c \in 1..Len(canvas[1]) :
         Covered(drawn[1], r, c) /\ canvas[r][c] # drawn[1].before[r][c]
    /\ \E r \in 1..Len(canvas) : \E c \in 1..Len(canvas[1]) : ~Covered(drawn[1], r, c)

\* an image of positive size wholly outside the canvas
C10_WitnessOutside ==
    /\ drawn # <<>>
    /\ PlacedW(drawn[1]) > 0
    /\ PlacedH(drawn[1]) > 0
    /\ \A r \in 1..Len(canvas) : \A c \in 1..Len(canvas[1]) : ~Covered(drawn[1], r, c)
    /\ canvas = drawn[1].before

(***************************************************************************)
(* Rendering.  The trees rendered are those load_dinosaur returns and      *)
(* those at most MaxRenderMerges calls of add_to_dinosaur make of them.    *)
(* A step is DinoPet.render: the canvas is cleared and the tree drawn with *)
(* the caller's selections.  drawn holds the composite_image calls of the  *)
(* latest render.                                                          *)
(***************************************************************************)
RECURSIVE MergedTrees(_)
MergedTrees(k) ==
    IF k = 0 THEN { Loaded[root].dino : root \in { r \in Roots : Loaded[r].raised = "" } }
    ELSE LET prev == MergedTrees(k - 1)
         IN  prev \cup { add_to_dinosaur(t, root, part_name).dino :
                           t \in prev, root \in Roots, part_name \in MergePartNames }

RenderTrees == MergedTrees(MaxRenderMerges)

\* the current_variants and current_frames dicts a caller passes
VariantSelections ==
    { <<>>,
      << <<S_dino, None>>, <<S_head, S_happy>>, <<S_legs, S_blue>> >>,
      << <<S_dino, <<"b">>>>, <<S_legs, S_green>>, <<S_tail, <<"z">>>>,
         <<S_arms, S_blue>>, <<S_head, S_original>> >>,
      << <<S_dino, S_original>>, <<S_rex, None>>, <<S_head, S_default>> >> }

FrameSelections ==
    { <<>>,
      << <<S_legs, 1>> >>,
      << <<S_legs, -1>>, <<S_dino, 5>>, <<S_head, 2>> >>,
      << <<S_dino, 1>>, <<S_legs, 3>>, <<S_rex, 1>> >> }

RenderCall(before, current_variants, current_frames, raised) ==
    [op |-> "render_dinosaur", path |-> "nowhere", part_name |-> None,
     variant |-> None, before |-> before, raised |-> raised, ret |-> NoFrames,
     current_variants |-> current_variants, current_frames |-> current_frames]

InitRender ==
    /\ filename = <<>>
    /\ parsed = NotParsed
    /\ dino \in RenderTrees
    /\ merges = 0
    /\ last = NoCall
    /\ canvas = create_canvas(CanvasW, CanvasH)
    /\ drawn = <<>>
    /\ pet = NoPet

\* Every render starts from the cleared canvas, so what it leaves depends on
\* the tree and the arguments only: one render from each tree reaches every
\* state that renders reach.
Render(x, y, current_variants, current_frames, flip_h, scale2) ==
    LET r == render_dinosaur(clear_canvas(canvas, SkyBlue), dino, x, y,
                             current_variants, current_frames, flip_h, scale2)
    IN  /\ last = NoCall
        /\ canvas' = r.canvas
        /\ drawn' = r.calls
        /\ last' = RenderCall(dino, current_variants, current_frames, r.raised)
        /\ UNCHANGED <<filename, parsed, dino, merges, pet>>

NextRender ==
    \E x \in {0, 2}, y \in {1}, current_variants \in VariantSelections,
       current_frames \in FrameSelections, flip_h \in BOOLEAN, scale2 \in {2, 4} :
        Render(x, y, current_variants, current_frames, flip_h, scale2)

SpecRender == InitRender /\ [][NextRender]_vars

(***************************************************************************)
(* Properties of render_dinosaur.                                          *)
(***************************************************************************)
\* the z-order the claim C8 names
ClaimedOrder == <<S_tail, S_dino, S_legs, S_arms, S_head>>

\* the value a selection dict holds for a part, or the given default
Selected(selection, part_name, default) ==
    IF \E i \in 1..Len(selection) : selection[i][1] = part_name
    THEN selection[CHOOSE i \in 1..Len(selection) : selection[i][1] = part_name][2]
    ELSE default

\* the frame sequences of the tree
SequencesOf(d) ==
    UNION { { d.parts[i][2][j][2] : j \in 1..Len(d.parts[i][2]) } : i \in 1..Len(d.parts) }

\* C8: render_dinosaur raises nothing and makes one composite_image call for
\* each of tail, dino, legs, arms, head that the tree has, in that order and
\* none else; the call draws the frame at the selected index modulo the
\* length (index 0 without a selection) of the sequence the fallback of C1
\* gives for the selected variant; indices k and k + N give the same frame.
C8_RenderOrder ==
    last.op = "render_dinosaur" =>
      LET present == SelectSeq(ClaimedOrder, LAMBDA p : p \in PartNamesOf(dino))
      IN  /\ last.raised = ""
          /\ Len(drawn) = Len(present)
          /\ \A k \in 1..Len(present) :
               \E pf \in SequencesOf(dino) :
                 /\ ResolvesAsClaimed(dino, present[k],
                                      Selected(last.current_variants, present[k], None), pf)
                 /\ drawn[k].image =
                      pf.frames[(Selected(last.current_frames, present[k], 0)
                                 % Len(pf.frames)) + 1]
                 /\ get_frame(pf, Selected(last.current_frames, present[k], 0)
                                  + Len(pf.frames)).image = drawn[k].image
                 /\ drawn[k].x = drawn[1].x /\ drawn[k].y = drawn[1].y
                 /\ drawn[k].flip_h = drawn[1].flip_h
                 /\ drawn[k].scale2 = drawn[1].scale2

\* four parts drawn, one of them with a frame index before the start of a
\* sequence of two frames, and a part of the tree that is not in the z-order
C8_Witness ==
    /\ last.op = "render_dinosaur"
    /\ Len(drawn) >= 4
    /\ Selected(last.current_frames, S_legs, 0) < 0
    /\ DictHas(dino.parts, S_legs)
    /\ \E pf \in SequencesOf(dino) :
         /\ ResolvesAsClaimed(dino, S_legs, Selected(last.current_variants, S_legs, None), pf)
         /\ Len(pf.frames) = 2
         /\ \E k \in 1..Len(drawn) : drawn[k].image = pf.frames[2]
    /\ canvas # clear_canvas(canvas, SkyBlue)

(***************************************************************************)
(* Placement of the anchor by composite_image.                             *)
(***************************************************************************)
\* every pixel of the canvas has one value
Uniform(cv) == \A r \in 1..Len(cv) : \A c \in 1..Len(cv[1]) : cv[r][c] = cv[1][1]

\* the call with the canvas point moved by (dx, dy), on the same canvas
MovedBy(call, dx, dy) ==
    composite_image(call.before, call.image, call.x + dx, call.y + dy,
                    call.flip_h, call.flip_v, call.scale2)

\* the corner x - anchor * scale, in quarter pixels
ExactCorner4(call) ==
    [x |-> 4 * call.x - call.image.anchor2[1] * call.scale2,
     y |-> 4 * call.y - call.image.anchor2[2] * call.scale2]

\* C11: the top-left corner of the image lies at (x - anchor_x * scale,
\* y - anchor_y * scale), left of and above the canvas origin as well as
\* inside it, so that, over a canvas of one colour, the call with the canvas
\* point one pixel further right (further down) draws every pixel one
\* column (one row) further.
C11_AnchorPlacement ==
    (drawn # <<>> /\ Uniform(drawn[1].before)) =>
      /\ (ExactCorner4(drawn[1]).x % 4 = 0 /\ ExactCorner4(drawn[1]).y % 4 = 0) =>
            \A r \in 1..Len(canvas) : \A c \in 1..Len(canvas[1]) :
              (canvas[r][c] # drawn[1].before[r][c]) =>
                /\ 4 * (c - 1) >= ExactCorner4(drawn[1]).x
                /\ 4 * (c - 1) < ExactCorner4(drawn[1]).x + 4 * PlacedW(drawn[1])
                /\ 4 * (r - 1) >= ExactCorner4(drawn[1]).y
                /\ 4 * (r - 1) < ExactCorner4(drawn[1]).y + 4 * PlacedH(drawn[1])
      /\ \A r \in 1..Len(canvas) : \A c \in 1..(Len(canvas[1]) - 1) :
            MovedBy(drawn[1], 1, 0)[r][c + 1] = canvas[r][c]
      /\ \A r \in 1..(Len(canvas) - 1) : \A c \in 1..Len(canvas[1]) :
            MovedBy(drawn[1], 0, 1)[r + 1][c] = canvas[r][c]

(***************************************************************************)
(* Variants declared by the files of a part subdirectory.                  *)
(***************************************************************************)
\* the frames of a variant dict under the key k, none if it has no such key
FramesUnder(vs, k) ==
    IF DictHas(vs, k)
    THEN { DictGet(vs, k).frames[n] : n \in 1..Len(DictGet(vs, k).frames) }
    ELSE {}

\* the files directly inside a part subdirectory of the root whose name
\* carries no variant of its own: a.png, blue_01.png
DeclaringFiles(root) ==
    { f \in FS(root).files :
        /\ Len(f.rel) = 2
        /\ EndsWith(f.rel[2], PngExt)
        /\ parse_filename(f.rel[2]).variant = None }

\* C12: after a directory is loaded, the image of a file placed directly
\* inside a part subdirectory is a frame of the variant of that part named
\* by the file (dino/a.png of variant a of part dino, legs/blue_01.png of
\* variant blue of part legs) and not of the part's "no variant" sequence.
C12_NestedVariants ==
    (last.op = "load_dinosaur" /\ is_dir(last.path) /\ last.raised = "") =>
      \A f \in DeclaringFiles(last.path) :
        /\ DictHas(dino.parts, f.rel[1])
        /\ LET vs == IF DictHas(dino.parts, f.rel[1])
                     THEN DictGet(dino.parts, f.rel[1]) ELSE <<>>
               image == DinoImage(<<last.path, f.rel>>, f.rgba)
           IN  /\ image \in FramesUnder(vs, parse_filename(f.rel[2]).base_name)
               /\ image \notin FramesUnder(vs, None)

(***************************************************************************)
(* The images a tree holds.                                                *)
(***************************************************************************)
\* the frame positions of a tree: part, variant entry, frame
FramePositions(d) ==
    { pos \in (1..Len(d.parts)) \X (1..8) \X (1..8) :
        /\ pos[2] <= Len(d.parts[pos[1]][2])
        /\ pos[3] <= Len(d.parts[pos[1]][2][pos[2]][2].frames) }

FrameCount(d) == Cardinality(FramePositions(d))

ImagesOf(d) ==
    { d.parts[pos[1]][2][pos[2]][2].frames[pos[3]] : pos \in FramePositions(d) }

\* the number of files a merge of the root reads
FilesMerged(root) ==
    IF is_file(root) THEN 1 ELSE IF is_dir(root) THEN Len(SortedPngs[root]) ELSE 0

\* C13: a merge keeps every image the tree held before it, and a merge that
\* succeeded adds one frame to the tree for each file it merged.
C13_NoImageLost ==
    last.op = "add_to_dinosaur" =>
      /\ ImagesOf(last.before) \subseteq ImagesOf(dino)
      /\ last.raised = "" =>
           FrameCount(dino) = FrameCount(last.before) + FilesMerged(last.path)

(***************************************************************************)
(* The host application, DinoPet.  dino is self.dino and canvas is         *)
(* self.canvas_buffer; pet holds self.current_variants, current_frames and *)
(* the entries of the appearance dropdowns in variant_widgets.  Each entry *)
(* keeps, next to the text it shows, the variant key it was built from,    *)
(* and chosen is the part and the key of the entry picked last, as long as *)
(* the tree is the one the entry was picked on.  The pet stands at the     *)
(* centre of the canvas, unflipped, at scale 1.0, as DinoPet.__init__      *)
(* leaves it.                                                              *)
(***************************************************************************)
\* the merges a session makes after a hatch
MaxPetMerges == 1

\* line 147: str(v) if v is not None else "default"
DisplayVariant(v) == IF v = None THEN S_default ELSE v

\* line 163: None if variant_str == "default" else variant_str
DecodeVariant(variant_str) == IF variant_str = S_default THEN None ELSE variant_str

\* the entries of the dropdown of a part
DropdownEntries(variants) ==
    [k \in 1..Len(variants) |->
       [text |-> DisplayVariant(variants[k]), built_from |-> variants[k]]]

\* update_variant_controls: a dropdown for each part with several variants
update_variant_controls(d) ==
    LET several == SelectSeq(d.parts,
                             LAMBDA item : Len(get_available_variants(d, item[1])) > 1)
    IN  [i \in 1..Len(several) |->
           <<several[i][1], DropdownEntries(get_available_variants(d, several[i][1]))>>]

\* lines 188-192 of hatch_new: each part starts on its first variant
FirstVariants(d) ==
    LET some == SelectSeq(d.parts,
                          LAMBDA item : Len(get_available_variants(d, item[1])) > 0)
    IN  [i \in 1..Len(some) |->
           <<some[i][1], get_available_variants(d, some[i][1])[1]>>]

HostCall(op, path, part_name, variant, before, raised) ==
    Call(op, path, part_name, variant, before, raised, NoFrames)

InitPet ==
    /\ filename = <<>>
    /\ parsed = NotParsed
    /\ dino = NoDino
    /\ merges = 0
    /\ last = NoCall
    /\ canvas = create_canvas(CanvasW, CanvasH)
    /\ drawn = <<>>
    /\ pet = NoPet

\* hatch_new with the path the dialogs return; a failed load is reported
\* and changes nothing
hatch_new(root) ==
    LET r == Loaded[root]
    IN  /\ last' = HostCall("hatch_new", root, None, None, dino, r.raised)
        /\ IF r.raised # "" THEN UNCHANGED <<dino, merges, pet>>
           ELSE /\ dino' = r.dino
                /\ merges' = 0
                /\ pet' = [current_variants |-> FirstVariants(r.dino),
                           current_frames |-> <<>>,
                           variant_widgets |-> update_variant_controls(r.dino),
                           chosen |-> <<>>]
        /\ UNCHANGED <<filename, parsed, canvas, drawn>>

\* add_parts with the path the dialogs return; the dropdowns are rebuilt
\* when add_to_dinosaur returns, and kept when it raises
add_parts(root) ==
    /\ dino.exists
    /\ merges < MaxPetMerges
    /\ LET r == add_to_dinosaur(dino, root, None)
       IN  /\ dino' = r.dino
           /\ last' = HostCall("add_parts", root, None, None, dino, r.raised)
           /\ pet' = [pet EXCEPT
                        !.variant_widgets = IF r.raised = ""
                                            THEN update_variant_controls(r.dino) ELSE @,
                        !.chosen = <<>>]
    /\ merges' = merges + 1
    /\ UNCHANGED <<filename, parsed, canvas, drawn>>

\* change_variant, called by the dropdown of part_name with the text of its
\* k-th entry
change_variant(part_name, k) ==
    /\ DictHas(pet.variant_widgets, part_name)
    /\ k \in 1..Len(DictGet(pet.variant_widgets, part_name))
    /\ LET entry == DictGet(pet.variant_widgets, part_name)[k]
           variant == DecodeVariant(entry.text)
       IN  /\ pet' = [pet EXCEPT
                        !.current_variants = DictSet(@, part_name, variant),
                        !.chosen = <<part_name, entry.built_from>>]
           /\ last' = HostCall("change_variant", "nowhere", part_name, variant, dino, "")
    /\ UNCHANGED <<filename, parsed, dino, merges, canvas, drawn>>

\* render: the canvas is cleared and the dinosaur, if there is one, drawn
render ==
    LET cleared == clear_canvas(canvas, SkyBlue)
        r == IF dino.exists
             THEN render_dinosaur(cleared, dino, CanvasW \div 2, CanvasH \div 2,
                                  pet.current_variants, pet.current_frames, FALSE, 2)
             ELSE [canvas |-> cleared, calls |-> <<>>, raised |-> ""]
    IN  /\ canvas' = r.canvas
        /\ drawn' = r.calls
        /\ last' = RenderCall(dino, pet.current_variants, pet.current_frames, r.raised)
        /\ UNCHANGED <<filename, parsed, dino, merges, pet>>

NextPet ==
    \/ \E root \in Roots : hatch_new(root)
    \/ \E root \in Roots : add_parts(root)
    \/ \E part_name \in PartNamesOf(dino), k \in 1..4 : change_variant(part_name, k)
    \/ render

SpecPet == InitPet /\ [][NextPet]_vars

(***************************************************************************)
(* Properties of the appearance dropdowns.                                 *)
(***************************************************************************)
\* the position among the composite_image calls of a render of the call
\* that draws the part
DrawnIndex(d, part_name) ==
    LET present == SelectSeq(render_order, LAMBDA p : p \in PartNamesOf(d))
    IN  CHOOSE k \in 1..Len(present) : present[k] = part_name

\* a render follows the choice of a dropdown entry of a part that is drawn
RenderedAfterChoice ==
    /\ last.op = "render_dinosaur"
    /\ pet.chosen # <<>>
    /\ \E n \in 1..Len(render_order) : render_order[n] = pet.chosen[1]

\* some entry of the part's dropdown makes the renderer resolve the part
\* to the given frame sequence
Selectable(part_name, pf) ==
    /\ DictHas(pet.variant_widgets, part_name)
    /\ \E k \in 1..Len(DictGet(pet.variant_widgets, part_name)) :
         get_part_frames(dino, part_name,
                         DecodeVariant(DictGet(pet.variant_widgets, part_name)[k].text)) = pf

\* C14: the render that follows the choice of a dropdown entry draws the
\* part from the frame sequence of the variant the entry was built from,
\* and once the dropdowns are rebuilt every variant of a part that has
\* several is the one some entry of the part's dropdown selects.
C14_DropdownSelects ==
    /\ RenderedAfterChoice =>
         LET vs == DictGet(dino.parts, pet.chosen[1])
             pf == DictGet(vs, pet.chosen[2])
         IN  /\ get_part_frames(dino, pet.chosen[1],
                                DictGetOr(pet.current_variants, pet.chosen[1], None)) = pf
             /\ drawn[DrawnIndex(dino, pet.chosen[1])].image = pf.frames[1]
    /\ (last.op \in {"hatch_new", "add_parts"} /\ last.raised = "") =>
         \A i \in 1..Len(dino.parts) :
           Len(dino.parts[i][2]) > 1 =>
             \A j \in 1..Len(dino.parts[i][2]) :
               Selectable(dino.parts[i][1], dino.parts[i][2][j][2])

====
